---- MODULE Spec2Model ----
(***************************************************************************)
(* Model of scripts/gen-stdlib-doc.py: the line scanner parse_actors, the  *)
(* renderer generate_markdown and the driver main.                         *)
(*                                                                         *)
(* A header line is a record: pad is its leading whitespace, k the shape   *)
(* of its stripped text (which of the regular expressions of lines 21-32   *)
(* it matches), t/u/tok the texts those expressions capture, tail what     *)
(* follows a declaration's OUT(...) group, brace whether the raw line      *)
(* contains the body-opening "{".  Line indices are 1-based: the model's   *)
(* i is the code's i + 1.                                                  *)
(***************************************************************************)
EXTENDS Integers, Sequences, FiniteSets, TLC

VARIABLES
    headers,        \* main: the texts of sorted(INCLUDE_DIR.glob("std_*.h")), each split in lines
    hdr,            \* main: position of the for loop of line 260 (1-based)
    pc,             \* where control is: main, loop, outer, doc, decl, sig, done, raised
    lines,          \* parse_actors: src.splitlines()
    i,              \* parse_actors: the cursor
    in_file_block,  \* parse_actors: suppress mode
    current_group,  \* parse_actors: <<>> for None, <<title>> otherwise
    in_code,        \* parse_actors: example sub-mode of the doc block
    actor,          \* parse_actors: the record in progress
    sig_lines,      \* parse_actors: the signature pieces collected so far
    actors,         \* parse_actors: the records found in this header
    main_actors,    \* main: the records accumulated over the headers
    groups,         \* generate_markdown: the insertion-ordered dict, a sequence of [name, members]
    md,             \* the document written to OUTPUT, a sequence of line tokens
    writes,         \* number of OUTPUT.write_text calls
    stdout,         \* what main printed to standard output
    stderr,         \* what main printed to the error stream
    rc,             \* main's return value, -1 while running
    how,            \* history: for each line of the current header, the branch that consumed it
    group_line,     \* history: index of the line that set current_group, 0 for none
    cur_origin,     \* history: provenance of the record in progress
    origin,         \* history: provenance of each record of actors
    found_log       \* history: what each parse_actors call returned, in call order

vars == <<headers, hdr, pc, lines, i, in_file_block, current_group, in_code, actor,
          sig_lines, actors, main_actors, groups, md, writes, stdout, stderr, rc,
          how, group_line, cur_origin, origin, found_log>>

-----------------------------------------------------------------------------
(* Bounds of the model.                                                    *)

MaxLen == 5

MaxFiles == 2

-----------------------------------------------------------------------------
(* Header lines.                                                           *)

Ln(k, t, u, tok, tail, brace, pad) ==
    [k |-> k, t |-> t, u |-> u, tok |-> tok, tail |-> tail, brace |-> brace, pad |-> pad]

LFile         == Ln("file", "std_math.h", "", <<>>, "", FALSE, "")
LDefgroup(t)  == Ln("defgroup", t, "grp", <<>>, "", FALSE, "")
LGroupEnd     == Ln("groupend", "", "", <<>>, "", FALSE, "")
LBrief(t)     == Ln("brief", t, "", <<>>, "", FALSE, "")
LParam(n, d)  == Ln("param", d, n, <<>>, "", FALSE, "")
LReturn(t)    == Ln("return", t, "", <<>>, "", FALSE, "")
LCodeStart    == Ln("codestart", "", "", <<>>, "", TRUE, "")
LCodeEnd      == Ln("codeend", "", "", <<>>, "", FALSE, "")
LDoc(t)       == Ln("doc", t, "", <<>>, "", FALSE, "")
LBlank        == Ln("blank", "", "", <<>>, "", FALSE, "")
LCode(t)      == Ln("code", t, "", <<>>, "", FALSE, "")
LBrace(t)     == Ln("code", t, "", <<>>, "", TRUE, "")
LActor(pre, name, it, ic, ot, oc, tail, brace) ==
    Ln("actor", pre, "", <<name, it, ic, ot, oc>>, tail, brace, "")
Indented(l)   == [l EXCEPT !.pad = "    "]

\* str.strip() of a line (lines 48, 53, 59, 65, 70, 91, 140, 150, 153).
Strip(l) == [l EXCEPT !.pad = ""]

\* The kinds whose stripped text starts with "///".
CommentKinds ==
    {"file", "defgroup", "groupend", "brief", "param", "return", "codestart", "codeend", "doc"}

\* s.startswith("///") on a stripped line (lines 53, 93).
StartsWithDoc(s) == s.pad = "" /\ s.k \in CommentKinds

\* s == "" on a stripped line (lines 93, 96).
IsEmpty(s) == s.pad = "" /\ s.k = "blank"

\* The regular expressions of lines 21-32, applied with match() to a stripped line.
RE_FILE(s)       == s.pad = "" /\ s.k = "file"
RE_DEFGROUP(s)   == s.pad = "" /\ s.k = "defgroup"
RE_GROUP_END(s)  == s.pad = "" /\ s.k = "groupend"
RE_BRIEF(s)      == s.pad = "" /\ s.k = "brief"
RE_PARAM(s)      == s.pad = "" /\ s.k = "param"
RE_RETURN(s)     == s.pad = "" /\ s.k = "return"
RE_CODE_START(s) == s.pad = "" /\ s.k = "codestart"
RE_CODE_END(s)   == s.pad = "" /\ s.k = "codeend"
RE_DOC_LINE(s)   == StartsWithDoc(s)

\* RE_ACTOR.search(): the declaration shape anywhere in the line.
RE_ACTOR(s) == s.k = "actor"

\* group(1) of RE_DOC_LINE: the text after "///" and at most one space.
DocPayload(s) ==
    CASE s.k = "file"      -> "@file " \o s.t
      [] s.k = "defgroup"  -> "@defgroup " \o s.u \o " " \o s.t
      [] s.k = "groupend"  -> "@}"
      [] s.k = "brief"     -> "@brief " \o s.t
      [] s.k = "param"     -> "@param " \o s.u \o " " \o s.t
      [] s.k = "return"    -> "@return " \o s.t
      [] s.k = "codestart" -> "@code{.pdl}"
      [] s.k = "codeend"   -> "@endcode"
      [] OTHER             -> s.t

\* The text of a declaration up to the end of its OUT(...) group.
ActorText(s) ==
    s.t \o "ACTOR(" \o s.tok[1] \o ", IN(" \o s.tok[2] \o ", " \o s.tok[3]
        \o "), OUT(" \o s.tok[4] \o ", " \o s.tok[5] \o ")"

\* sig_line.split("{")[0].strip() (line 154): the text before the first "{".
BeforeBrace(s) ==
    CASE s.k = "codestart" -> "/// @code"
      [] s.k = "actor"     -> ActorText(s) \o s.tail
      [] s.k = "code"      -> s.t
      [] s.k = "blank"     -> ""
      [] OTHER             -> IF DocPayload(s) = "" THEN "///" ELSE "/// " \o DocPayload(s)

\* The stripped text of a line: what precedes its "{", then the "{" if it has one.
Text(s) ==
    IF s.k \in {"actor", "code"} /\ s.brace
    THEN (IF BeforeBrace(s) = "" THEN "{" ELSE BeforeBrace(s) \o " {")
    ELSE IF s.k = "codestart" THEN "/// @code{.pdl}"
    ELSE BeforeBrace(s)

\* "{" in lines[i], on the raw line (line 149).
HasBrace(l) == l.brace

RECURSIVE JoinSp(_)
\* " ".join(pieces)
JoinSp(pieces) ==
    IF pieces = <<>> THEN ""
    ELSE IF Len(pieces) = 1 THEN pieces[1]
    ELSE pieces[1] \o " " \o JoinSp(Tail(pieces))

RECURSIVE TrimEmpty(_)
\* The pieces without their leading and trailing empty ones.
TrimEmpty(pieces) ==
    IF pieces = <<>> THEN <<>>
    ELSE IF pieces[1] = "" THEN TrimEmpty(Tail(pieces))
    ELSE IF pieces[Len(pieces)] = "" THEN TrimEmpty(SubSeq(pieces, 1, Len(pieces) - 1))
    ELSE pieces

\* " ".join(pieces).strip() (lines 155, 209): every piece is itself stripped, so the
\* whitespace strip() removes is the separators around leading and trailing empty pieces.
JoinStrip(pieces) == JoinSp(TrimEmpty(pieces))

-----------------------------------------------------------------------------
(* Records.                                                                *)

None == <<>>

\* The dict literal of lines 72-85.
NewActor(group, brief) ==
    [group |-> group, brief |-> brief, description |-> <<>>, params |-> <<>>,
     returns |-> "", example |-> <<>>, signature |-> "", name |-> "",
     in_type |-> "", in_count |-> "", out_type |-> "", out_count |-> ""]

\* History kept beside a record: the lines its fields were read from.
NewOrigin(b, g) == [b |-> b, d |-> 0, g |-> g, docs |-> {}, code |-> {}]

NoOrigin == NewOrigin(0, 0)

-----------------------------------------------------------------------------
(* parse_actors (lines 35-167).                                            *)

\* Mutant of EntryGroup: the category is kept from the previous call.
EntryGroupKept(prev_group) == prev_group

\* Lines 37-42: the locals at entry.  prev_* are what the previous call left behind.
EntryGroup(prev_group) == None

\* Mutant of EntryFileBlock: suppress mode is kept from the previous call.
EntryFileBlockKept(prev_flag) == prev_flag

\* Line 42: suppress mode at entry.
EntryFileBlock(prev_flag) == FALSE

\* Mutant of SuppressSkips: a summary marker is not suppressed.
SuppressSkipsButBrief(flag, s) == flag /\ StartsWithDoc(s) /\ ~RE_BRIEF(s)

\* Mutant of SuppressSkips: a blank line is suppressed as well and does not end the mode.
SuppressSkipsBlank(flag, s) == flag /\ (StartsWithDoc(s) \/ IsEmpty(s))

\* Lines 52-55: a suppressed line is consumed without being interpreted.
SuppressSkips(flag, s) == flag /\ StartsWithDoc(s)

\* Line 61: the category after a group marker.
GroupAfterMarker(s) == <<s.t>>

\* Mutant of GroupAfterEnd: the group-end marker closes the category.
GroupAfterEndCloses(group) == None

\* Lines 65-67: the category after a group-end marker.
GroupAfterEnd(group) == group

\* Mutant of StartsDocBlock: a declaration line starts a block as well.
StartsDocBlockOrDecl(s) == RE_BRIEF(s) \/ RE_ACTOR(s)

\* Lines 70-71: the line that starts a doc block.
StartsDocBlock(s) == RE_BRIEF(s)

\* Mutant of EndsDocBlock: a blank line ends the block as well.
EndsDocBlockAtBlank(s) == ~StartsWithDoc(s)

\* Line 93: the line that ends the doc block.
EndsDocBlock(s) == ~StartsWithDoc(s) /\ ~IsEmpty(s)

\* Lines 140-141: the line the declaration search stops at.
DeclMatches(s) == RE_ACTOR(s)

\* Lines 142-146: the matched tokens.
WithDecl(a, s) ==
    [a EXCEPT !.name = s.tok[1], !.in_type = s.tok[2], !.in_count = s.tok[3],
              !.out_type = s.tok[4], !.out_count = s.tok[5]]

\* Mutant of KeepRecord: the record is kept whether or not a declaration was found.
KeepRecordAlways(a) == TRUE

\* Line 162: whether the record in progress is kept.
KeepRecord(a) == a.name # ""

\* Lines 162-163.
Emit(found, a) == IF KeepRecord(a) THEN Append(found, a) ELSE found

EmitOrigin(os, a, o) == IF KeepRecord(a) THEN Append(os, o) ELSE os

Mark(tag) == [how EXCEPT ![i] = tag]

main_vars == <<headers, hdr, main_actors, groups, md, writes, stdout, stderr, rc, found_log>>

\* Lines 44, 90, 138 and 152: i < len(lines).
InRange(k, n) == k <= n

\* lines[i] (lines 45, 91, 139, 149, 150, 153): indexing a list raises IndexError unless
\* the index is below its length; the cursor is never negative.
Readable(k) == k \in DOMAIN lines

\* An exception leaves parse_actors and main: nothing is written, no code is returned.
Raise(rest) == pc' = "raised" /\ UNCHANGED rest

\* Lines 44-86 and 165: one iteration of the outer loop.
ParseOuter ==
    /\ pc = "outer"
    /\ InRange(i, Len(lines))
    /\ IF ~Readable(i) THEN
            Raise(<<i, in_file_block, current_group, group_line, in_code, actor, cur_origin, how>>)
       ELSE LET s == Strip(lines[i]) IN
        IF RE_FILE(s) THEN
            /\ in_file_block' = TRUE
            /\ i' = i + 1
            /\ how' = Mark("file")
            /\ UNCHANGED <<pc, current_group, group_line, in_code, actor, cur_origin>>
        ELSE IF SuppressSkips(in_file_block, s) THEN
            /\ i' = i + 1
            /\ how' = Mark("suppress")
            /\ UNCHANGED <<pc, in_file_block, current_group, group_line, in_code, actor,
                           cur_origin>>
        ELSE
            /\ in_file_block' = FALSE
            /\ IF RE_DEFGROUP(s) THEN
                    /\ current_group' = GroupAfterMarker(s)
                    /\ group_line' = i
                    /\ i' = i + 1
                    /\ how' = Mark("group")
                    /\ UNCHANGED <<pc, in_code, actor, cur_origin>>
               ELSE IF RE_GROUP_END(s) THEN
                    /\ current_group' = GroupAfterEnd(current_group)
                    /\ group_line' = IF current_group' = current_group THEN group_line ELSE 0
                    /\ i' = i + 1
                    /\ how' = Mark("groupend")
                    /\ UNCHANGED <<pc, in_code, actor, cur_origin>>
               ELSE IF StartsDocBlock(s) THEN
                    /\ actor' = NewActor(current_group, s.t)
                    /\ cur_origin' = NewOrigin(i, group_line)
                    /\ i' = i + 1
                    /\ in_code' = FALSE
                    /\ pc' = "doc"
                    /\ how' = Mark("brief")
                    /\ UNCHANGED <<current_group, group_line>>
               ELSE
                    /\ i' = i + 1
                    /\ how' = Mark("skip")
                    /\ UNCHANGED <<pc, current_group, group_line, in_code, actor, cur_origin>>
    /\ UNCHANGED <<lines, sig_lines, actors, origin>>
    /\ UNCHANGED main_vars

\* Mutant of ExampleAfter: a line with an empty payload is dropped, as in description.
ExampleAfterNonEmpty(a, s) ==
    IF RE_DOC_LINE(s) /\ DocPayload(s) # ""
    THEN [a EXCEPT !.example = Append(@, DocPayload(s))] ELSE a

\* Mutant of ExampleAfter: a parameter marker is interpreted inside the code sample.
ExampleAfterParam(a, s) ==
    IF RE_PARAM(s) THEN [a EXCEPT !.params = Append(@, <<s.u, s.t>>)]
    ELSE IF RE_DOC_LINE(s) THEN [a EXCEPT !.example = Append(@, DocPayload(s))] ELSE a

\* Lines 108-113: a line of the code sample.
ExampleAfter(a, s) ==
    IF RE_DOC_LINE(s) THEN [a EXCEPT !.example = Append(@, DocPayload(s))] ELSE a

\* Mutant of DocAfter: the placeholder line is appended like any other text.
DocAfterKeepsPlaceholder(a, s) ==
    IF RE_PARAM(s) THEN [a EXCEPT !.params = Append(@, <<s.u, s.t>>)]
    ELSE IF RE_RETURN(s) THEN [a EXCEPT !.returns = s.t]
    ELSE IF RE_DOC_LINE(s) /\ DocPayload(s) # ""
         THEN [a EXCEPT !.description = Append(@, DocPayload(s))]
    ELSE a

\* Lines 115-133: a line of the doc block outside the code sample.
DocAfter(a, s) ==
    IF RE_PARAM(s) THEN [a EXCEPT !.params = Append(@, <<s.u, s.t>>)]
    ELSE IF RE_RETURN(s) THEN [a EXCEPT !.returns = s.t]
    ELSE IF RE_DOC_LINE(s) /\ DocPayload(s) # "" /\ DocPayload(s) # "Example usage:"
         THEN [a EXCEPT !.description = Append(@, DocPayload(s))]
    ELSE a

\* Mutant of SkipBlank: the cursor is not advanced before the continue.
SkipBlankStuck(k) == k

\* Lines 96-98: the cursor after a blank line of the doc block.
SkipBlank(k) == k + 1

\* Lines 90-135: one iteration of the doc-block loop, or its exit.
ParseDoc ==
    /\ pc = "doc"
    /\ IF InRange(i, Len(lines)) /\ ~Readable(i) THEN
            Raise(<<i, in_code, actor, cur_origin, how>>)
       ELSE IF ~InRange(i, Len(lines)) \/ EndsDocBlock(Strip(lines[i])) THEN
            /\ pc' = "decl"
            /\ UNCHANGED <<i, in_code, actor, cur_origin, how>>
       ELSE LET s == Strip(lines[i]) IN
            /\ i' = IF IsEmpty(s) THEN SkipBlank(i) ELSE i + 1
            /\ pc' = pc
            /\ IF IsEmpty(s) THEN
                    /\ how' = Mark("docblank")
                    /\ UNCHANGED <<in_code, actor, cur_origin>>
               ELSE IF RE_CODE_START(s) THEN
                    /\ in_code' = TRUE
                    /\ how' = Mark("codestart")
                    /\ UNCHANGED <<actor, cur_origin>>
               ELSE IF RE_CODE_END(s) THEN
                    /\ in_code' = FALSE
                    /\ how' = Mark("codeend")
                    /\ UNCHANGED <<actor, cur_origin>>
               ELSE IF in_code THEN
                    /\ actor' = ExampleAfter(actor, s)
                    /\ cur_origin' = [cur_origin EXCEPT !.code = @ \cup {i}]
                    /\ how' = Mark("example")
                    /\ UNCHANGED in_code
               ELSE
                    /\ actor' = DocAfter(actor, s)
                    /\ cur_origin' = IF actor' = actor THEN cur_origin
                                     ELSE [cur_origin EXCEPT !.docs = @ \cup {i}]
                    /\ how' = Mark("doc")
                    /\ UNCHANGED in_code
    /\ UNCHANGED <<lines, in_file_block, current_group, group_line, sig_lines, actors, origin>>
    /\ UNCHANGED main_vars

\* Lines 138-146, 160 and 162-165: one iteration of the declaration search, or its
\* exit at the end of input.
ParseDecl ==
    /\ pc = "decl"
    /\ IF InRange(i, Len(lines)) /\ ~Readable(i) THEN
            Raise(<<i, actor, cur_origin, sig_lines, actors, origin, how>>)
       ELSE IF ~InRange(i, Len(lines)) THEN
            /\ actors' = Emit(actors, actor)
            /\ origin' = EmitOrigin(origin, actor, cur_origin)
            /\ i' = i + 1
            /\ pc' = "outer"
            /\ UNCHANGED <<actor, cur_origin, sig_lines, how>>
       ELSE IF DeclMatches(Strip(lines[i])) THEN
            /\ actor' = WithDecl(actor, Strip(lines[i]))
            /\ cur_origin' = [cur_origin EXCEPT !.d = i]
            /\ sig_lines' = <<>>
            /\ pc' = "sig"
            /\ how' = Mark("decl")
            /\ UNCHANGED <<i, actors, origin>>
       ELSE
            /\ i' = i + 1
            /\ how' = Mark("declskip")
            /\ UNCHANGED <<pc, actor, cur_origin, sig_lines, actors, origin>>
    /\ UNCHANGED <<lines, in_file_block, current_group, group_line, in_code>>
    /\ UNCHANGED main_vars

\* Mutant of SigInRange: the signature loop does not test the cursor.
SigInRangeUnchecked(k, n) == TRUE

\* Line 149: i < len(lines), tested before lines[i] is read.
SigInRange(k, n) == k <= n

\* Lines 149-151: the signature loop goes on over a line without "{".
SigContinues(l) == ~HasBrace(l)

\* Lines 149-159 and 162-165: one iteration of the signature loop, or its exit and
\* the end of the block.
ParseSig ==
    /\ pc = "sig"
    /\ IF SigInRange(i, Len(lines)) /\ ~Readable(i) THEN
            Raise(<<i, actor, sig_lines, actors, origin, how>>)
       ELSE IF SigInRange(i, Len(lines)) /\ SigContinues(lines[i]) THEN
            /\ sig_lines' = Append(sig_lines, Text(Strip(lines[i])))
            /\ i' = i + 1
            /\ how' = IF how[i] = "none" THEN Mark("sig") ELSE how
            /\ UNCHANGED <<pc, actor, actors, origin>>
       ELSE
            /\ sig_lines' = IF InRange(i, Len(lines))
                            THEN Append(sig_lines, BeforeBrace(Strip(lines[i])))
                            ELSE sig_lines
            /\ actor' = [actor EXCEPT !.signature = JoinStrip(sig_lines')]
            /\ actors' = Emit(actors, actor')
            /\ origin' = EmitOrigin(origin, actor', cur_origin)
            /\ i' = i + 1
            /\ pc' = "outer"
            /\ how' = IF InRange(i, Len(lines)) /\ how[i] = "none" THEN Mark("sig") ELSE how
    /\ UNCHANGED <<lines, in_file_block, current_group, group_line, in_code, cur_origin>>
    /\ UNCHANGED main_vars

-----------------------------------------------------------------------------
(* generate_markdown (lines 170-250).  The document is a sequence of line  *)
(* tokens [k, v]: k names the f-string or literal that produced the line,  *)
(* v holds the texts substituted into it.                                  *)

Tok(k, v) == [k |-> k, v |-> v]

Lit(text) == Tok("text", <<text>>)

\* Lines 172-182.
Preamble ==
    << Lit("# Pipit Standard Library Reference"), Lit(""),
       Lit("<!-- Auto-generated from std_*.h by scripts/gen-stdlib-doc.py -->"),
       Lit("<!-- Do not edit manually -->"), Lit(""),
       Lit("## Quick Reference"), Lit(""),
       Lit("| Actor | Input | Output | Description |"),
       Lit("|-------|-------|--------|-------------|") >>

\* Lines 185-190: type[count], or the void sentinel.
PortSig(type, count) == IF type # "void" THEN type \o "[" \o count \o "]" ELSE "void"

\* Lines 185-191: the row of one record.
TableRow(a) ==
    Tok("row", <<a.name, PortSig(a.in_type, a.in_count), PortSig(a.out_type, a.out_count),
                 a.brief>>)

\* Lines 184-191: the rows, one per record, in input order.
TableRows(as) == [n \in 1..Len(as) |-> TableRow(as[n])]

\* Line 198: a["group"] or "Other".
GroupKey(a) == IF a.group = None \/ a.group = <<"">> THEN "Other" ELSE a.group[1]

\* Mutant of SetDefaultAppend: the record is put at the front of its bucket.
SetDefaultPrepend(gs, g, a) ==
    IF \E n \in 1..Len(gs) : gs[n].name = g
    THEN [n \in 1..Len(gs) |->
            IF gs[n].name = g THEN [gs[n] EXCEPT !.members = <<a>> \o @] ELSE gs[n]]
    ELSE Append(gs, [name |-> g, members |-> <<a>>])

\* Line 199: groups.setdefault(g, []).append(a) on an insertion-ordered dict.
SetDefaultAppend(gs, g, a) ==
    IF \E n \in 1..Len(gs) : gs[n].name = g
    THEN [n \in 1..Len(gs) |->
            IF gs[n].name = g THEN [gs[n] EXCEPT !.members = Append(@, a)] ELSE gs[n]]
    ELSE Append(gs, [name |-> g, members |-> <<a>>])

RECURSIVE GroupInto(_, _)
\* Lines 196-199: the loop over the records, from the dict built so far.
GroupInto(gs, as) ==
    IF as = <<>> THEN gs
    ELSE GroupInto(SetDefaultAppend(gs, GroupKey(as[1]), as[1]), Tail(as))

GroupActors(as) == GroupInto(<<>>, as)

RECURSIVE Flatten(_)
Flatten(ss) == IF ss = <<>> THEN <<>> ELSE ss[1] \o Flatten(Tail(ss))

\* Lines 206-248: the section of one record.
RenderActor(a) ==
    LET desc == JoinStrip(a.description) IN
    << Tok("h3", <<a.name>>), Lit("") >>
    \o (IF desc # "" THEN << Tok("para", <<a.brief, desc>>) >> ELSE << Tok("plain", <<a.brief>>) >>)
    \o << Lit(""), Lit("**Signature:**"), Lit(""), Tok("fence", <<"cpp">>), Tok("sig", <<a.signature>>),
          Tok("fence", <<"">>), Lit("") >>
    \o (IF a.params # <<>>
        THEN << Lit("**Parameters:**"), Lit("") >>
             \o [n \in 1..Len(a.params) |-> Tok("param", a.params[n])]
             \o << Lit("") >>
        ELSE <<>>)
    \o (IF a.returns # "" THEN << Tok("returns", <<a.returns>>), Lit("") >> ELSE <<>>)
    \o (IF a.example # <<>>
        THEN << Lit("**Example:**"), Lit(""), Tok("fence", <<"pdl">>) >>
             \o [n \in 1..Len(a.example) |-> Tok("example", <<a.example[n]>>)]
             \o << Tok("fence", <<"">>), Lit("") >>
        ELSE <<>>)
    \o << Lit("---"), Lit("") >>

\* Lines 201-248: the section of one bucket.
RenderGroup(g) ==
    << Tok("h2", <<g.name>>), Lit("") >>
    \o Flatten([n \in 1..Len(g.members) |-> RenderActor(g.members[n])])

\* Lines 172-250: the whole document.
GenerateMarkdown(as) ==
    Preamble \o TableRows(as) \o << Lit("") >>
    \o Flatten([n \in 1..Len(GroupActors(as)) |-> RenderGroup(GroupActors(as)[n])])

-----------------------------------------------------------------------------
(* main (lines 253-277).                                                   *)

parse_vars == <<lines, i, in_file_block, current_group, in_code, actor, sig_lines, actors,
                how, group_line, cur_origin, origin>>

\* Lines 254-259: no header, or the start of the loop.
MainGlob ==
    /\ pc = "main"
    /\ IF headers = <<>> THEN
            /\ stderr' = Append(stderr, <<"no std_*.h files found">>)
            /\ rc' = 1
            /\ pc' = "done"
            /\ UNCHANGED <<hdr, main_actors>>
       ELSE
            /\ main_actors' = <<>>
            /\ hdr' = 1
            /\ pc' = "loop"
            /\ UNCHANGED <<stderr, rc>>
    /\ UNCHANGED <<headers, groups, md, writes, stdout, found_log>>
    /\ UNCHANGED parse_vars

\* Lines 260-262 and 37-42: the next header is read and parse_actors entered.
MainReadHeader ==
    /\ pc = "loop"
    /\ hdr <= Len(headers)
    /\ lines' = headers[hdr]
    /\ actors' = <<>>
    /\ current_group' = EntryGroup(current_group)
    /\ i' = 1
    /\ in_file_block' = EntryFileBlock(in_file_block)
    /\ pc' = "outer"
    /\ how' = [n \in 1..Len(headers[hdr]) |-> "none"]
    /\ group_line' = 0
    /\ origin' = <<>>
    /\ cur_origin' = NoOrigin
    /\ UNCHANGED <<in_code, actor, sig_lines>>
    /\ UNCHANGED main_vars

\* Mutant of Extend: the records of a header are put before those of earlier headers.
ExtendFront(acc, found) == found \o acc

\* Line 263: actors.extend(found).
Extend(acc, found) == acc \o found

\* Lines 167 and 263-265: parse_actors returns, main accumulates and reports.
ParseReturn ==
    /\ pc = "outer"
    /\ ~InRange(i, Len(lines))
    /\ main_actors' = Extend(main_actors, actors)
    /\ stdout' = IF actors # <<>> THEN Append(stdout, <<"found", hdr, Len(actors)>>) ELSE stdout
    /\ found_log' = Append(found_log, actors)
    /\ hdr' = hdr + 1
    /\ pc' = "loop"
    /\ UNCHANGED <<headers, groups, md, writes, stderr, rc>>
    /\ UNCHANGED parse_vars

\* Mutant of NoActors: the test for an empty result is missing.
NoActorsIgnored(as) == FALSE

\* Line 267: not actors.
NoActors(as) == as = <<>>

\* Lines 267-277: after the loop.
MainFinish ==
    /\ pc = "loop"
    /\ hdr > Len(headers)
    /\ IF NoActors(main_actors) THEN
            /\ stderr' = Append(stderr, <<"no actors found">>)
            /\ rc' = 1
            /\ UNCHANGED <<groups, md, writes, stdout>>
       ELSE
            /\ groups' = GroupActors(main_actors)
            /\ md' = GenerateMarkdown(main_actors)
            /\ writes' = writes + 1
            /\ stdout' = Append(stdout, <<"generated", Len(main_actors), Len(headers)>>)
            /\ rc' = 0
            /\ UNCHANGED stderr
    /\ pc' = "done"
    /\ UNCHANGED <<headers, hdr, main_actors, found_log>>
    /\ UNCHANGED parse_vars

Next ==
    \/ MainGlob
    \/ MainReadHeader
    \/ ParseOuter
    \/ ParseDoc
    \/ ParseDecl
    \/ ParseSig
    \/ ParseReturn
    \/ MainFinish

-----------------------------------------------------------------------------
(* Inputs.                                                                 *)

RECURSIVE SeqsUpTo(_, _)
\* The sequences over S of length at most n.
SeqsUpTo(S, n) ==
    IF n = 0 THEN {<<>>}
    ELSE LET shorter == SeqsUpTo(S, n - 1) IN
         shorter \cup {Append(q, x) : q \in {r \in shorter : Len(r) = n - 1}, x \in S}

\* A declaration on one line, and the first line of one that goes on over the next lines.
ActorAdd == LActor("", "add", "int32", "2", "int32", "1", ")", TRUE)
ActorGen == LActor("template <typename T> ", "gen", "void", "0", "T", "SHAPE(N)", ",", FALSE)

\* The state main starts in, for a given directory content.
Start(hs) ==
    /\ headers = hs
    /\ hdr = 0
    /\ pc = "main"
    /\ lines = <<>>
    /\ i = 1
    /\ in_file_block = FALSE
    /\ current_group = None
    /\ in_code = FALSE
    /\ actor = NewActor(None, "")
    /\ sig_lines = <<>>
    /\ actors = <<>>
    /\ main_actors = <<>>
    /\ groups = <<>>
    /\ md = <<>>
    /\ writes = 0
    /\ stdout = <<>>
    /\ stderr = <<>>
    /\ rc = -1
    /\ how = <<>>
    /\ group_line = 0
    /\ cur_origin = NoOrigin
    /\ origin = <<>>
    /\ found_log = <<>>

\* The directories of one header of at most MaxLen lines over the alphabet, and the
\* empty directory.
OneHeader(alphabet) == {<<>>} \cup {<<h>> : h \in SeqsUpTo(alphabet, MaxLen)}

\* Doc blocks, declarations with and without their "{", and the code around them.
Alphabet ==
    { LBrief("Adds two numbers"), LBrief("Makes samples"), LDoc("more text"),
      ActorAdd, ActorGen, LCode("int x;"), LBrace("") }

Init == \E hs \in OneHeader(Alphabet) : Start(hs)

Spec == Init /\ [][Next]_vars

\* File preambles, group markers and doc blocks.
GroupAlphabet ==
    { LFile, LDefgroup("Math"), LDefgroup("Sources"), LGroupEnd, LBlank,
      LBrief("Adds two numbers"), ActorAdd }

InitGroups == \E hs \in OneHeader(GroupAlphabet) : Start(hs)

SpecGroups == InitGroups /\ [][Next]_vars

\* Group markers and group-end markers around doc blocks, in and out of a preamble.
GroupEndAlphabet ==
    { LFile, LDefgroup("Math"), LDefgroup("Sources"), LGroupEnd,
      LBrief("Adds two numbers"), ActorAdd }

InitGroupEnd == \E hs \in OneHeader(GroupEndAlphabet) : Start(hs)

SpecGroupEnd == InitGroupEnd /\ [][Next]_vars

\* Doc blocks with code samples.
DocAlphabet ==
    { LBrief("Adds two numbers"), LCodeStart, LCodeEnd, LDoc("y = add(x)"), LDoc(""),
      LBlank, ActorAdd }

InitDoc == \E hs \in OneHeader(DocAlphabet) : Start(hs)

SpecDoc == InitDoc /\ [][Next]_vars

\* Lines for every loop of parse_actors: skipped by the outer loop, read or skipped by
\* the doc loop, skipped by the declaration search, taken by the signature loop.
TermAlphabet ==
    { LBrief("Adds two numbers"), LBlank, ActorAdd, ActorGen, LCode("int x;"), LBrace("") }

InitTerm == \E hs \in OneHeader(TermAlphabet) : Start(hs)

\* main is one sequential thread: a step that can be taken is taken.
SpecTerm == InitTerm /\ [][Next]_vars /\ WF_vars(Next)

\* Doc blocks with description lines, parameter and return markers.
DescAlphabet ==
    { LBrief("Adds two numbers"), LDoc("Example usage:"), LDoc("more text"), LDoc(""),
      LParam("a", "first operand"), LReturn("the sum"), LCodeStart, ActorAdd }

InitDesc == \E hs \in OneHeader(DescAlphabet) : Start(hs)

SpecDesc == InitDesc /\ [][Next]_vars

\* Doc blocks whose code sample holds lines shaped like markers.
ExampleAlphabet ==
    { LBrief("Adds two numbers"), LCodeStart, LCodeEnd, LParam("a", "first operand"),
      LDefgroup("Math"), LDoc(""), ActorAdd }

InitExample == \E hs \in OneHeader(ExampleAlphabet) : Start(hs)

SpecExample == InitExample /\ [][Next]_vars

\* Directories of up to MaxFiles headers taken from a pool: headers that end with a
\* group active, inside a preamble, inside a code sample, with and without records.
HeaderPool ==
    { << LDefgroup("Math"), LBrief("Adds two numbers"), ActorAdd >>,
      << LBrief("Makes samples"), ActorGen, LBrace("") >>,
      << LBrief("Makes samples"), ActorGen, LBrace(""), LDefgroup("Math"),
         LBrief("Adds two numbers"), LParam("a", "first operand"), LReturn("the sum"), ActorAdd >>,
      << LBrief("Adds two numbers"), ActorAdd, LFile, LBrief("Maths") >>,
      << LDefgroup("Sources"), LBrief("Makes samples"), LCodeStart, LDoc("gen() | out") >>,
      << LFile, LDoc("Standard actors") >>,
      << LDefgroup("Other"), LBrief("Makes samples"), LDoc("Example usage:"), LCodeStart,
         LDoc("gen() | out"), LCodeEnd, ActorGen, LBrace("PARAM(int, N))") >>,
      << LBrief("Adds two numbers"), ActorAdd, LDefgroup("Sources") >>,
      << LBrief("Adds two numbers"), LDoc("more text"), ActorAdd, LFile >>,
      << >> }

InitMain == \E hs \in SeqsUpTo(HeaderPool, MaxFiles) : Start(hs)

SpecMain == InitMain /\ [][Next]_vars

-----------------------------------------------------------------------------
(* Properties.                                                             *)

\* parse_actors has returned: lines, actors, origin and how are those of the last call.
Returned == pc \in {"loop", "done"} /\ found_log # <<>>

L(j) == Strip(lines[j])

\* The records whose summary was read from line b.
RecordsOf(b) == {n \in 1..Len(actors) : origin[n].b = b}

\* A summary marker at b, then only comment-prefixed lines that are no summary marker
\* or blank lines, then a declaration at d.
WellFormedBlock(b, d) ==
    /\ b < d
    /\ RE_BRIEF(L(b))
    /\ \A m \in (b + 1)..(d - 1) : (StartsWithDoc(L(m)) /\ ~RE_BRIEF(L(m))) \/ IsEmpty(L(m))
    /\ RE_ACTOR(L(d)) /\ ~StartsWithDoc(L(d))

TokensOf(a) == <<a.name, a.in_type, a.in_count, a.out_type, a.out_count>>

\* C1: for any header, a well-formed doc block immediately followed by a declaration
\* yields exactly one record, which carries the tokens of that declaration and the
\* text of the block's own summary marker.
C1_BlockYieldsItsRecord ==
    Returned =>
        \A b \in 1..Len(lines), d \in 1..Len(lines) :
            WellFormedBlock(b, d) =>
                /\ Cardinality(RecordsOf(b)) = 1
                /\ \A n \in RecordsOf(b) :
                    /\ origin[n].d = d
                    /\ TokensOf(actors[n]) = L(d).tok
                    /\ actors[n].brief = L(b).t

\* The first summary marker after line b, or the end of input.
NextBrief(b) ==
    IF \E m \in (b + 1)..Len(lines) : RE_BRIEF(L(m))
    THEN CHOOSE m \in (b + 1)..Len(lines) :
            RE_BRIEF(L(m)) /\ \A k \in (b + 1)..(m - 1) : ~RE_BRIEF(L(k))
    ELSE Len(lines) + 1

\* C2: a doc block with no declaration line before the next summary marker or the end
\* of input yields no record carrying its summary.
C2_NoDeclNoRecord ==
    Returned =>
        \A b \in 1..Len(lines) :
            (RE_BRIEF(L(b)) /\ \A m \in (b + 1)..(NextBrief(b) - 1) : ~RE_ACTOR(L(m)))
                => RecordsOf(b) = {}

\* C3: every record has a summary read from a summary-marker line and five non-empty
\* tokens read from one declaration line after that marker; a doc block whose
\* declaration search reaches the end of input yields no record.
C3_RecordHasSummaryAndDecl ==
    /\ Len(origin) = Len(actors)
    /\ \A n \in 1..Len(actors) :
        LET a == actors[n]
            o == origin[n]
        IN  /\ 1 <= o.b /\ o.b < o.d /\ o.d <= Len(lines)
            /\ RE_BRIEF(L(o.b)) /\ a.brief = L(o.b).t
            /\ RE_ACTOR(L(o.d)) /\ TokensOf(a) = L(o.d).tok
            /\ \A k \in 1..5 : TokensOf(a)[k] # ""
    /\ Returned =>
        \A b \in 1..Len(lines) :
            (\A m \in (b + 1)..Len(lines) : ~RE_ACTOR(L(m))) => RecordsOf(b) = {}

\* C3 witness: the scan is over, one block gave a record and a later block, whose
\* declaration search ran to the end of input, gave none.
C3_Witness ==
    /\ Returned
    /\ Len(actors) = 1
    /\ \E b \in 1..Len(lines) : how[b] = "brief" /\ RecordsOf(b) = {} /\ b > origin[1].d

Count(P(_)) == Cardinality({j \in 1..Len(lines) : P(L(j))})

\* The tags of the lines a doc block and its declaration search consume.
BlockTags == {"doc", "docblank", "codestart", "codeend", "example", "declskip"}

\* C5: a declaration is matched only by the search that continues a doc block; a
\* declaration with no summary marker before it gives no record; there are no more
\* records than summary markers, nor than declaration lines.
C5_DeclOnlyAfterDocBlock ==
    /\ \A d \in 1..Len(how) :
        how[d] = "decl" =>
            \E b \in 1..(d - 1) :
                /\ how[b] = "brief"
                /\ \A m \in (b + 1)..(d - 1) : how[m] \in BlockTags
    /\ \A n \in 1..Len(actors) :
        /\ \E b \in 1..(origin[n].d - 1) : RE_BRIEF(L(b))
        /\ \A m \in 1..Len(actors) : m # n => origin[m].d # origin[n].d
    /\ Len(actors) <= Count(RE_BRIEF)
    /\ Len(actors) <= Count(RE_ACTOR)

\* C5 witness: the scan is over with a record, and the header also holds a declaration
\* that no summary marker precedes.
C5_Witness ==
    /\ Returned
    /\ actors # <<>>
    /\ \E d \in 1..Len(lines) :
        /\ RE_ACTOR(L(d))
        /\ \A b \in 1..(d - 1) : ~RE_BRIEF(L(b))
        /\ how[d] = "skip"

MaxOf(S) == CHOOSE x \in S : \A y \in S : y <= x

\* The group of a record whose nearest marker among the lines G is the greatest of G.
GroupFrom(G) == IF G = {} THEN None ELSE <<L(MaxOf(G)).t>>

\* The group-marker lines before line b.
MarkersBefore(b) == {j \in 1..(b - 1) : RE_DEFGROUP(L(j))}

\* The group-marker lines before line b that the outer loop scanned in normal mode.
ScannedMarkersBefore(b) == {j \in MarkersBefore(b) : how[j] = "group"}

\* C4 as stated: a record's group is the title of the nearest group-marker line that
\* precedes its summary marker anywhere in the header, and absent when there is none.
C4_GroupIsNearestMarker ==
    \A n \in 1..Len(actors) : actors[n].group = GroupFrom(MarkersBefore(origin[n].b))

\* C4 amended: a record's group is the title of the nearest group-marker line before
\* its summary marker that was scanned in normal mode (not suppressed in a file
\* preamble, not consumed by a doc block, a declaration search or a signature), and
\* absent exactly when there is none; it is rendered in the bucket of that title, or
\* in "Other".
C4_GroupIsNearestScannedMarker ==
    /\ \A n \in 1..Len(actors) :
        /\ actors[n].group = GroupFrom(ScannedMarkersBefore(origin[n].b))
        /\ actors[n].group = None <=> ScannedMarkersBefore(origin[n].b) = {}
    /\ (pc \in {"outer", "doc", "decl", "sig"}) =>
            current_group = GroupFrom({j \in 1..Len(lines) : how[j] = "group"})
    /\ (pc = "done" /\ rc = 0) =>
        \A n \in 1..Len(actors) :
            \E g \in 1..Len(groups) :
                /\ groups[g].name = (IF ScannedMarkersBefore(origin[n].b) = {} THEN "Other"
                                     ELSE actors[n].group[1])
                /\ \E m \in 1..Len(groups[g].members) : groups[g].members[m] = actors[n]

\* C4 witness: two group markers of different titles were scanned before a record's
\* summary marker, and the record took the title of the nearer one.
C4_Witness ==
    /\ Returned
    /\ \E n \in 1..Len(actors) :
        /\ actors[n].group # None
        /\ \E j \in ScannedMarkersBefore(origin[n].b) : <<L(j).t>> # actors[n].group

\* Line j lies in a file-level preamble block, read off the header alone: a
\* file-marker line that no summary marker precedes (so the outer loop scans it), and
\* the comment-prefixed lines that follow it.
InPreamble(j) ==
    \E f \in 1..j :
        /\ RE_FILE(L(f))
        /\ \A m \in 1..(f - 1) : ~RE_BRIEF(L(m))
        /\ \A m \in (f + 1)..j : StartsWithDoc(L(m))

\* The lines a record's brief, group, description, params, returns and example were
\* read from.
Contributors(o) == {o.b} \cup (IF o.g = 0 THEN {} ELSE {o.g}) \cup o.docs \cup o.code

\* C6: no line of a file-level preamble block (the file marker and the
\* comment-prefixed lines consumed while suppress mode is active) contributes to any
\* record's brief, description, params, returns, example or group; a header that is
\* only a preamble block yields no record.
C6_PreambleNeverAttributed ==
    /\ \A j \in 1..Len(lines) :
        /\ (InPreamble(j) \/ how[j] \in {"file", "suppress"}) =>
                /\ \A n \in 1..Len(origin) : j \notin Contributors(origin[n])
                /\ (pc \in {"doc", "decl", "sig"}) => j \notin Contributors(cur_origin)
        /\ (InPreamble(j) /\ how[j] # "none") => how[j] \in {"file", "suppress"}
    /\ (Returned /\ \A j \in 1..Len(lines) : InPreamble(j)) => actors = <<>>

\* C6 witness: the scan is over; a summary marker was suppressed in a preamble, and a
\* block after the preamble gave a record.
C6_Witness ==
    /\ Returned
    /\ actors # <<>>
    /\ \E j \in 1..Len(lines) : InPreamble(j) /\ how[j] = "suppress" /\ RE_BRIEF(L(j))

\* The line that ends the doc block started at b, or the end of input.
BlockEnd(b) ==
    IF \E m \in (b + 1)..Len(lines) : EndsDocBlock(L(m))
    THEN CHOOSE m \in (b + 1)..Len(lines) :
            EndsDocBlock(L(m)) /\ \A k \in (b + 1)..(m - 1) : ~EndsDocBlock(L(k))
    ELSE Len(lines) + 1

Block(b) == (b + 1)..(BlockEnd(b) - 1)

\* A comment-prefixed line that is no code-sample marker.
SampleLine(s) == StartsWithDoc(s) /\ ~RE_CODE_START(s) /\ ~RE_CODE_END(s)

\* A code-sample-start marker of the block precedes j with no end marker in between.
OpenAt(b, j) ==
    \E cs \in Block(b) :
        cs < j /\ RE_CODE_START(L(cs)) /\ \A m \in (cs + 1)..(j - 1) : ~RE_CODE_END(L(m))

\* Line j lies between a start marker and the next end marker of the block.
InPair(b, j) ==
    /\ j \in Block(b) /\ SampleLine(L(j)) /\ OpenAt(b, j)
    /\ \E ce \in Block(b) : ce > j /\ RE_CODE_END(L(ce))

\* Line j lies after a start marker and before the next end marker, or before the end
\* of the block when no end marker follows.
InSample(b, j) == j \in Block(b) /\ SampleLine(L(j)) /\ OpenAt(b, j)

RECURSIVE PayloadsOf(_)
\* The payloads of the lines of S, in line order.
PayloadsOf(S) ==
    IF S = {} THEN <<>>
    ELSE LET m == CHOOSE x \in S : \A y \in S : x <= y
         IN  <<DocPayload(L(m))>> \o PayloadsOf(S \ {m})

\* C7 as stated: a record's example is exactly the lines between a code-sample-start
\* marker and the next code-sample-end marker, in order, lines with an empty payload
\* included; none of them is in description; no line outside such a pair is in example.
C7_ExampleIsDelimitedPairs ==
    \A n \in 1..Len(actors) :
        LET b == origin[n].b
            S == {j \in 1..Len(lines) : InPair(b, j)}
        IN  /\ actors[n].example = PayloadsOf(S)
            /\ origin[n].code = S
            /\ origin[n].docs \cap S = {}

\* C7 amended: a record's example is exactly the comment-prefixed lines, other than
\* the markers, that lie after a code-sample-start marker and before the next
\* code-sample-end marker or, when the sample is not closed, the end of the doc block;
\* in order, lines with an empty payload included; none of them is in description,
\* params or returns, and no other line is in example.
C7_ExampleIsSampleLines ==
    \A n \in 1..Len(actors) :
        LET b == origin[n].b
            S == {j \in 1..Len(lines) : InSample(b, j)}
        IN  /\ actors[n].example = PayloadsOf(S)
            /\ origin[n].code = S
            /\ origin[n].docs \cap S = {}
            /\ \A j \in origin[n].docs : j \in Block(b) /\ ~InSample(b, j)

\* C7 witness: a record whose closed code sample holds a line with an empty payload,
\* which is in its example.
C7_Witness ==
    /\ Returned
    /\ \E n \in 1..Len(actors) :
        /\ actors[n].example # <<>>
        /\ \E j \in 1..Len(lines) :
            /\ InPair(origin[n].b, j)
            /\ DocPayload(L(j)) = ""
            /\ actors[n].example[1] = ""

\* The records of all parse_actors calls so far: file order, then the order in which
\* each call returned them.
AllFound == Flatten(found_log)

IsRow(t) == t.k = "row"

\* C8: parse_actors returns its records in strictly increasing order of the line of
\* their declaration, and the summary table has exactly one row per record, in file
\* order and, within a file, in declaration order.
C8_SourceOrderKept ==
    /\ \A n \in 1..Len(origin), m \in 1..Len(origin) : n < m => origin[n].d < origin[m].d
    /\ Len(origin) = Len(actors)
    /\ (pc = "done" /\ rc = 0) =>
        LET rows == SelectSeq(md, IsRow) IN
        /\ Len(rows) = Len(AllFound)
        /\ \A n \in 1..Len(rows) :
            /\ rows[n].v[1] = AllFound[n].name
            /\ rows[n].v[4] = AllFound[n].brief
            /\ md[Len(Preamble) + n] = rows[n]

\* C8 witness: the document is written from two headers that both gave records, the
\* second one two of them, the first record's name differing from the last one's.
C8_Witness ==
    /\ pc = "done" /\ rc = 0
    /\ Len(found_log) = 2
    /\ Len(found_log[1]) >= 1
    /\ Len(found_log[2]) >= 2
    /\ found_log[1][1].name # found_log[2][Len(found_log[2])].name

\* The bucket the claim gives a record: its group, or "Other" when it has none.
BucketOf(a) == IF a.group = None THEN "Other" ELSE a.group[1]

FirstWith(name) ==
    CHOOSE n \in 1..Len(AllFound) :
        BucketOf(AllFound[n]) = name /\ \A m \in 1..(n - 1) : BucketOf(AllFound[m]) # name

IsHeading(t) == t.k \in {"h2", "h3"}

\* The headings of the grouped body, as the claim orders them.
HeadingsOf(gs) ==
    Flatten([g \in 1..Len(gs) |->
        << Tok("h2", <<gs[g].name>>) >>
        \o [m \in 1..Len(gs[g].members) |-> Tok("h3", <<gs[g].members[m].name>>)]])

\* C9: the grouped body is a partition of the records: each record is in exactly the
\* bucket of its group ("Other" without one), buckets come in the order in which
\* their category first occurs in the input, records keep their input order within a
\* bucket.
C9_GroupedBodyIsPartition ==
    (pc = "done" /\ rc = 0) =>
        /\ \A p \in 1..Len(groups), q \in 1..Len(groups) :
            p # q => groups[p].name # groups[q].name
        /\ \A g \in 1..Len(groups) :
            /\ groups[g].members # <<>>
            /\ groups[g].members =
                    SelectSeq(AllFound, LAMBDA a : BucketOf(a) = groups[g].name)
        /\ \A n \in 1..Len(AllFound) :
            \E g \in 1..Len(groups) : groups[g].name = BucketOf(AllFound[n])
        /\ \A p \in 1..Len(groups), q \in 1..Len(groups) :
            p < q => FirstWith(groups[p].name) < FirstWith(groups[q].name)
        /\ SelectSeq(md, IsHeading) = HeadingsOf(groups)

\* C9 witness: the document has two buckets and a bucket whose records are not
\* adjacent in the input: a record of another bucket lies between two of them.
C9_Witness ==
    /\ pc = "done" /\ rc = 0
    /\ Len(groups) >= 2
    /\ \E p \in 1..Len(AllFound), q \in 1..Len(AllFound), r \in 1..Len(AllFound) :
        /\ p < q /\ q < r
        /\ BucketOf(AllFound[p]) = BucketOf(AllFound[r])
        /\ BucketOf(AllFound[p]) # BucketOf(AllFound[q])

HasMarker(h) == \E m \in 1..Len(h) : RE_DEFGROUP(Strip(h[m]))

\* C10: the category and the suppress mode do not survive from one parse_actors call
\* to the next: equal headers give equal records whatever was scanned before them, a
\* header without group marker gives records without group, and a header that starts
\* with a doc block and its declaration gives that record.
C10_NoStateAcrossHeaders ==
    /\ \A j \in 1..Len(found_log), k \in 1..Len(found_log) :
        headers[j] = headers[k] => found_log[j] = found_log[k]
    /\ \A k \in 1..Len(found_log) :
        /\ ~HasMarker(headers[k]) =>
                \A n \in 1..Len(found_log[k]) : found_log[k][n].group = None
        /\ (Len(headers[k]) >= 2 /\ RE_BRIEF(Strip(headers[k][1]))
                /\ RE_ACTOR(Strip(headers[k][2]))) =>
                /\ found_log[k] # <<>>
                /\ found_log[k][1].brief = headers[k][1].t
    /\ (pc = "outer" /\ i = 1) =>
            current_group = None /\ in_file_block = FALSE /\ actors = <<>>

\* C10 witness: the first header ended with a group active and in suppress mode or
\* in a doc block, and the second header, scanned after it, gave a record without
\* group.
C10_Witness ==
    /\ Len(found_log) = 2
    /\ HasMarker(headers[1])
    /\ \E n \in 1..Len(found_log[1]) : found_log[1][n].group # None
    /\ ~HasMarker(headers[2])
    /\ found_log[2] # <<>>
    /\ found_log[2][1].group = None

\* The positions of control inside parse_actors.
ParsePcs == {"outer", "doc", "decl", "sig"}

\* C11: parse_actors never raises, whatever the lines: no line is read at an index
\* that is not below the number of lines, also when the signature loop runs to the end
\* of input without a body-opening marker; every scan returns, and a header with
\* malformed or incomplete documentation only gives fewer records (never more than it
\* has summary markers).
C11_NeverRaises ==
    /\ pc # "raised"
    /\ (pc \in ParsePcs) => (i >= 1 /\ i <= Len(lines) + 2)
    /\ (pc \in {"doc", "decl", "sig"}) => i <= Len(lines) + 1
    /\ Returned => Len(actors) <= Count(RE_BRIEF)
    /\ (pc = "done" /\ headers # <<>>) => (Len(found_log) = Len(headers) /\ rc \in {0, 1})

\* C11 witness: the scan returned although the signature loop of a record ran to the
\* end of input (no line from its declaration on holds the body-opening marker), and
\* the header has a summary marker that gave no record.
C11_Witness ==
    /\ Returned
    /\ \E n \in 1..Len(actors) :
        /\ \A m \in origin[n].d..Len(lines) : ~HasBrace(lines[m])
        /\ actors[n].signature # ""
    /\ Count(RE_BRIEF) > Len(actors)

\* C12: main returns 1 without writing the document exactly when there is no header
\* or the headers together give no record; otherwise it writes the document once,
\* after every header has been scanned, and returns 0.  Before it returns nothing is
\* written.
C12_ExitCodes ==
    /\ (pc # "done") => (rc = -1 /\ writes = 0 /\ md = <<>>)
    /\ (pc = "done") =>
        /\ rc \in {0, 1}
        /\ (rc = 1) <=> (headers = <<>> \/ AllFound = <<>>)
        /\ (rc = 1) => (writes = 0 /\ md = <<>> /\ Len(stderr) = 1)
        /\ (rc = 0) =>
            /\ writes = 1
            /\ Len(found_log) = Len(headers)
            /\ md = GenerateMarkdown(AllFound)
            /\ stderr = <<>>

\* C12 witness: two headers were scanned, one of them holds a summary marker, none
\* gave a record, and main returned 1 with nothing written.
C12_Witness ==
    /\ pc = "done" /\ rc = 1 /\ writes = 0
    /\ Len(headers) = 2 /\ Len(found_log) = 2
    /\ \E h \in 1..2 : \E m \in 1..Len(headers[h]) : RE_BRIEF(Strip(headers[h][m]))

\* C13: scanning the same lines twice gives the same records: whenever two headers
\* of the directory have equal lines, the later parse_actors call returns exactly the
\* sequence the earlier one returned, whatever the earlier calls left behind (a
\* category, suppress mode, an open code sample, an unfinished record).
C13_SameLinesSameRecords ==
    \A j \in 1..Len(found_log), k \in 1..Len(found_log) :
        (j < k /\ headers[j] = headers[k]) =>
            /\ Len(found_log[k]) = Len(found_log[j])
            /\ \A n \in 1..Len(found_log[j]) : found_log[k][n] = found_log[j][n]

\* C13 witness: the same header was scanned twice in a row and gave a record both
\* times, each scan ending in suppress mode.
C13_Witness ==
    /\ pc = "loop"
    /\ Len(found_log) = 2
    /\ headers[1] = headers[2]
    /\ found_log[1] # <<>> /\ found_log[2] = found_log[1]
    /\ in_file_block

\* The tags of the lines consumed in suppress mode, the file marker included.
SuppressTags == {"file", "suppress"}

\* Line j follows the file marker f, scanned by the outer loop, with only
\* comment-prefixed or blank lines in between.
AfterFileMarker(f, j) ==
    /\ how[f] = "file" /\ f < j
    /\ \A m \in (f + 1)..(j - 1) : StartsWithDoc(L(m)) \/ IsEmpty(L(m))

\* Line j follows the file marker f with only comment-prefixed lines in between.
AfterFileMarkerComments(f, j) ==
    /\ how[f] = "file" /\ f < j
    /\ \A m \in (f + 1)..(j - 1) : StartsWithDoc(L(m))

\* No record, finished or in progress, has its summary or its group from line j, and
\* the tracked category was not set by it.
Uninterpreted(j) ==
    /\ j # group_line
    /\ \A n \in 1..Len(origin) : j \notin Contributors(origin[n])
    /\ (pc \in {"doc", "decl", "sig"}) => j \notin Contributors(cur_origin)

\* C14 as stated: after a file marker the scanner stays in suppress mode until the
\* first line that is neither comment-prefixed nor blank (a blank line does not end
\* suppress mode); the markers consumed meanwhile are not interpreted, and the line
\* that ends suppress mode is examined in normal mode.
C14_SuppressUntilCode ==
    \A f \in 1..Len(lines), j \in 1..Len(lines) :
        (AfterFileMarker(f, j) /\ how[j] # "none") =>
            /\ StartsWithDoc(L(j)) => (how[j] \in SuppressTags /\ Uninterpreted(j))
            /\ (~StartsWithDoc(L(j)) /\ ~IsEmpty(L(j))) => how[j] = "skip"

\* C14 amended: after a file marker the scanner stays in suppress mode over the
\* comment-prefixed lines that immediately follow and leaves it at the first line that
\* is not comment-prefixed, a blank line included; the summary, group and parameter
\* markers consumed meanwhile start no doc block and do not change the category; the
\* line that ends suppress mode is examined in normal mode, and suppress mode is off
\* from then on.
C14_SuppressUntilNonComment ==
    /\ \A f \in 1..Len(lines), j \in 1..Len(lines) :
        (AfterFileMarkerComments(f, j) /\ how[j] # "none") =>
            /\ StartsWithDoc(L(j)) =>
                    /\ how[j] \in SuppressTags
                    /\ (how[j] = "file") <=> RE_FILE(L(j))
                    /\ Uninterpreted(j)
            /\ ~StartsWithDoc(L(j)) =>
                    /\ how[j] = "skip"
                    /\ (j < Len(lines) /\ how[j + 1] # "none") => how[j + 1] # "suppress"
    /\ \A j \in 1..Len(how) : (how[j] = "suppress") => Uninterpreted(j)
    /\ (pc = "outer" /\ (i - 1) \in DOMAIN how) =>
            (in_file_block <=> how[i - 1] \in SuppressTags)

\* C14 witness: a summary or group marker was suppressed after a file marker, a blank
\* line ended suppress mode, and the group or summary marker after the blank line was
\* interpreted.
C14_Witness ==
    /\ Returned
    /\ \E f \in 1..Len(lines), e \in 1..Len(lines) :
        /\ AfterFileMarkerComments(f, e) /\ IsEmpty(L(e))
        /\ \E m \in (f + 1)..(e - 1) :
                how[m] = "suppress" /\ (RE_BRIEF(L(m)) \/ RE_DEFGROUP(L(m)))
        /\ e < Len(lines) /\ how[e + 1] \in {"group", "brief"}

\* The first line from d on that holds the body-opening marker, or the end of input.
BraceLine(d) ==
    IF \E m \in d..Len(lines) : HasBrace(lines[m])
    THEN CHOOSE m \in d..Len(lines) :
            HasBrace(lines[m]) /\ \A k \in d..(m - 1) : ~HasBrace(lines[k])
    ELSE Len(lines) + 1

\* The texts of lines d..e joined by spaces, line e cut before its body-opening marker.
SignatureFrom(d, e) ==
    JoinStrip([m \in 1..((IF e <= Len(lines) THEN e ELSE Len(lines)) - d + 1) |->
                IF d + m - 1 = e THEN BeforeBrace(L(e)) ELSE Text(L(d + m - 1))])

\* C15: a record's signature runs from its declaration line to the part before the
\* body-opening marker of the first line that holds one; scanning resumes right
\* after the declaration: every later doc block followed by its own declaration gives
\* its own record, and no later summary marker or declaration line is consumed into
\* the earlier record's signature.
C15_ResumesAfterDeclaration ==
    Returned =>
        \A n \in 1..Len(actors) :
            LET d == origin[n].d IN
            /\ actors[n].signature = SignatureFrom(d, BraceLine(d))
            /\ \A j \in (d + 1)..Len(lines) :
                    (RE_BRIEF(L(j)) \/ RE_ACTOR(L(j))) => how[j] # "sig"
            /\ \A b \in (d + 1)..Len(lines), e \in (d + 1)..Len(lines) :
                    WellFormedBlock(b, e) =>
                        \E m \in 1..Len(actors) : origin[m].b = b /\ origin[m].d = e

\* Line j of the block of b is comment-prefixed, is no code-sample marker and is read
\* outside example sub-mode.
OutsideSample(b, j) ==
    /\ j \in Block(b) /\ StartsWithDoc(L(j))
    /\ ~RE_CODE_START(L(j)) /\ ~RE_CODE_END(L(j))
    /\ ~OpenAt(b, j)

\* Such a line that is neither a parameter marker nor a return marker.
PlainDocLine(b, j) == OutsideSample(b, j) /\ ~RE_PARAM(L(j)) /\ ~RE_RETURN(L(j))

\* C16 as stated: outside example sub-mode every comment-prefixed line of a doc block
\* that is no parameter, return or code-sample marker appends its payload to
\* description, the only exception being the payload "Example usage:"; the block's
\* own summary is never in description.
C16_DescriptionIsPlainLines ==
    \A n \in 1..Len(actors) :
        LET b == origin[n].b IN
        actors[n].description =
            PayloadsOf({j \in 1..Len(lines) :
                            PlainDocLine(b, j) /\ DocPayload(L(j)) # "Example usage:"})

\* C16 amended: as stated, with two exceptions instead of one: a line with an empty
\* payload and a line whose payload is "Example usage:" append nothing.
C16_DescriptionIsNonEmptyPlainLines ==
    \A n \in 1..Len(actors) :
        LET b == origin[n].b
            D == {j \in 1..Len(lines) :
                    PlainDocLine(b, j) /\ DocPayload(L(j)) \notin {"", "Example usage:"}}
        IN  /\ actors[n].description = PayloadsOf(D)
            /\ D \subseteq origin[n].docs
            /\ b \notin origin[n].docs

\* C16 witness: a record whose block holds, outside any code sample, the placeholder
\* line, a line with an empty payload and a line of text, and whose description is
\* that text alone.
C16_Witness ==
    /\ Returned
    /\ \E n \in 1..Len(actors) :
        LET b == origin[n].b IN
        /\ \E j \in 1..Len(lines) : PlainDocLine(b, j) /\ DocPayload(L(j)) = "Example usage:"
        /\ \E j \in 1..Len(lines) : PlainDocLine(b, j) /\ DocPayload(L(j)) = ""
        /\ Len(actors[n].description) = 1
        /\ actors[n].description[1] # "Example usage:"

RECURSIVE ParamsOf(_)
\* The (name, text) pairs of the parameter-marker lines of S, in line order.
ParamsOf(S) ==
    IF S = {} THEN <<>>
    ELSE LET m == CHOOSE x \in S : \A y \in S : x <= y
         IN  << <<L(m).u, L(m).t>> >> \o ParamsOf(S \ {m})

\* The text of the last return-marker line of S, or nothing.
ReturnOf(S) == IF S = {} THEN "" ELSE L(MaxOf(S)).t

\* What the doc block of b has given record a once the lines before k are read:
\* lines in example sub-mode add to example and to nothing else, the others to
\* params, returns and description and not to example.
FieldsUpTo(a, b, k) ==
    LET Read == 1..(k - 1) IN
    /\ a.example = PayloadsOf({j \in Read : InSample(b, j)})
    /\ a.params = ParamsOf({j \in Read : OutsideSample(b, j) /\ RE_PARAM(L(j))})
    /\ a.returns = ReturnOf({j \in Read : OutsideSample(b, j) /\ RE_RETURN(L(j))})
    /\ a.description =
            PayloadsOf({j \in Read : PlainDocLine(b, j)
                                        /\ DocPayload(L(j)) \notin {"", "Example usage:"}})

\* A comment-prefixed line shaped like a parameter, return, summary or group marker.
MarkerShaped(s) == RE_PARAM(s) \/ RE_RETURN(s) \/ RE_BRIEF(s) \/ RE_DEFGROUP(s)

\* C17: in example sub-mode every comment-prefixed line other than a code-sample
\* marker is appended to example, also when its payload is empty or it is shaped like
\* a parameter, return, summary or group marker, and it leaves params, returns,
\* description and the tracked category as they were.  The fields are compared while
\* the block is read and when the scan has returned.
C17_ExampleModeFrame ==
    /\ Returned =>
            /\ \A n \in 1..Len(actors) :
                    FieldsUpTo(actors[n], origin[n].b, Len(lines) + 1)
            /\ \A b \in 1..Len(how), j \in 1..Len(how) :
                    (how[b] = "brief" /\ InSample(b, j)) => how[j] = "example"
    /\ (pc = "doc") =>
            /\ FieldsUpTo(actor, cur_origin.b, i)
            /\ in_code <=> OpenAt(cur_origin.b, i)
            /\ current_group = actor.group
    /\ \A j \in 1..Len(how) :
            (how[j] = "example") =>
                /\ j # group_line
                /\ \A n \in 1..Len(origin) : origin[n].g # j /\ origin[n].b # j

\* C17 witness: a record whose code sample holds a line shaped like a marker and a
\* line with an empty payload; both are in its example, and it has no parameter, no
\* return text, no description and no group.
C17_Witness ==
    /\ Returned
    /\ \E n \in 1..Len(actors) :
        LET b == origin[n].b IN
        /\ \E j \in 1..Len(lines) : InSample(b, j) /\ MarkerShaped(L(j))
        /\ \E j \in 1..Len(lines) : InSample(b, j) /\ DocPayload(L(j)) = ""
        /\ Len(actors[n].example) = 2
        /\ actors[n].params = <<>> /\ actors[n].returns = ""
        /\ actors[n].description = <<>> /\ actors[n].group = None

\* A line that is neither comment-prefixed nor blank.
CodeLine(s) == s.k \notin CommentKinds /\ s.k # "blank"

\* The first line after b that is neither comment-prefixed nor blank, or the end of
\* input.
FirstCodeAfter(b) ==
    IF \E m \in (b + 1)..Len(lines) : CodeLine(L(m))
    THEN CHOOSE m \in (b + 1)..Len(lines) :
            CodeLine(L(m)) /\ \A k \in (b + 1)..(m - 1) : ~CodeLine(L(k))
    ELSE Len(lines) + 1

\* The tags of the lines the doc loop consumes.
DocTags == {"doc", "docblank", "codestart", "codeend", "example"}

\* C18: a blank line inside a doc block does not end it; the block ends at the first
\* line that is neither comment-prefixed nor blank, which the block does not consume:
\* the declaration search starts at that very line, and a declaration on it is
\* matched.
C18_BlockEndsAtCodeLine ==
    /\ \A b \in 1..Len(how) :
        (how[b] = "brief") =>
            LET e == FirstCodeAfter(b) IN
            /\ \A j \in (b + 1)..(e - 1) :
                    (how[j] # "none") =>
                        /\ how[j] \in DocTags
                        /\ IsEmpty(L(j)) <=> (how[j] = "docblank")
            /\ (e <= Len(lines) /\ how[e] # "none") =>
                    /\ how[e] \in {"decl", "declskip"}
                    /\ RE_ACTOR(L(e)) <=> (how[e] = "decl")
            /\ (Returned /\ e <= Len(lines) /\ RE_ACTOR(L(e))) =>
                    \E n \in 1..Len(actors) :
                        origin[n].b = b /\ origin[n].d = e /\ TokensOf(actors[n]) = L(e).tok
    /\ (pc = "doc") => (i > cur_origin.b /\ i <= FirstCodeAfter(cur_origin.b))
    /\ (pc = "decl") =>
            /\ i >= FirstCodeAfter(cur_origin.b)
            /\ \A m \in FirstCodeAfter(cur_origin.b)..(i - 1) : how[m] = "declskip"

\* C18 witness: a record whose doc block holds a blank line followed by a comment
\* line, and whose declaration is the line that ended the block.
C18_Witness ==
    /\ Returned
    /\ \E n \in 1..Len(actors) :
        LET b == origin[n].b IN
        /\ origin[n].d = FirstCodeAfter(b)
        /\ \E j \in (b + 1)..(origin[n].d - 2) :
                how[j] = "docblank" /\ how[j + 1] \in {"doc", "codestart"}

\* The group-marker lines scanned in normal mode among the first k lines.
ScannedMarkersUpTo(k) == {j \in 1..k : how[j] = "group"}

\* A group-end marker is consumed by this step of the outer loop.
AtGroupEnd ==
    /\ pc = "outer" /\ InRange(i, Len(lines))
    /\ RE_GROUP_END(L(i))
    /\ ~in_file_block

\* C19 (step): a group-end marker scanned in normal mode only advances the cursor by
\* one line: the category, the records, the record in progress and the modes stay.
C19_Step ==
    AtGroupEnd =>
        /\ i' = i + 1
        /\ pc' = "outer"
        /\ current_group' = current_group
        /\ actors' = actors
        /\ in_file_block' = in_file_block
        /\ <<actor, in_code, sig_lines, main_actors, md, rc>>' =
                <<actor, in_code, sig_lines, main_actors, md, rc>>

\* C19 (records): a record whose doc block starts after a group-end marker, with no
\* group marker scanned in between, carries the group that was active before the
\* group-end marker.
C19_Records ==
    \A n \in 1..Len(actors), e \in 1..Len(how) :
        (how[e] = "groupend" /\ e < origin[n].b
            /\ \A m \in (e + 1)..(origin[n].b - 1) : how[m] # "group") =>
                actors[n].group = GroupFrom(ScannedMarkersUpTo(e - 1))

\* C19: a group-end marker line scanned in normal mode changes nothing but the
\* cursor, so the group active before it is the group of the records that follow.
C19_GroupEndChangesNothing == [](C19_Records) /\ [][C19_Step]_vars

\* C19 witness: a record with a group whose doc block starts after a group-end
\* marker that follows the group marker.
C19_Witness ==
    /\ Returned
    /\ \E n \in 1..Len(actors), e \in 1..Len(how) :
        /\ how[e] = "groupend" /\ e < origin[n].b
        /\ \A m \in (e + 1)..(origin[n].b - 1) : how[m] # "group"
        /\ ScannedMarkersUpTo(e - 1) # {}
        /\ actors[n].group # None

\* The loops of parse_actors, innermost last: a loop is left for one further right, or
\* for the outer loop with the cursor advanced.
LoopRank == [outer |-> 0, doc |-> 2, decl |-> 1, sig |-> 0]

\* What is left to scan: the lines from the cursor on, then the loops still to leave.
Variant == 3 * (Len(lines) + 2 - i) + LoopRank[pc]

\* C20 (step): inside parse_actors the cursor never decreases, and every iteration
\* advances it by at least one line or leaves its loop.
C20_Step ==
    (pc \in ParsePcs /\ pc' \in ParsePcs) =>
        /\ i' >= i
        /\ i' > i \/ pc' # pc
        /\ Variant' < Variant
        /\ lines' = lines

\* C20 (bounds): the cursor stays within one line past the end of input while the
\* loops run, and the scan has ended with the cursor past the last line.
C20_Bounds ==
    /\ (pc \in ParsePcs) => (i >= 1 /\ Variant >= 0)
    /\ Returned => i > Len(lines)

\* C20: parse_actors terminates on every sequence of lines: the cursor never
\* decreases, every iteration of the outer, doc-block, declaration-search and
\* signature loops advances it or leaves its loop, and the scan ends with the cursor
\* past the last line; the run reaches its end.
C20_Terminates == [](C20_Bounds) /\ [][C20_Step]_vars /\ <>(pc = "done")

\* C20 witness: a scan that went through all four loops has returned: the outer loop
\* started a doc block, the doc loop skipped a blank line, the declaration search
\* skipped a line, and the signature loop took a line after the declaration.
C20_Witness ==
    /\ Returned
    /\ i > Len(lines)
    /\ actors # <<>>
    /\ \A t \in {"brief", "docblank", "declskip", "decl", "sig"} :
            \E j \in 1..Len(how) : how[j] = t

====
